---- MODULE Spec2Model ----
(***************************************************************************)
(* Model of app.py: the Flask application with the single endpoint         *)
(* POST /generate-report (generate_report_endpoint) and the module-level   *)
(* agent/tool setup that runs once at import.                              *)
(*                                                                         *)
(* Python strings that the code builds by interpolation or concatenation   *)
(* are modelled as sequences of string tokens ("texts"): a literal part of *)
(* an f-string is one token, an interpolated value contributes the tokens  *)
(* of its str() conversion, and the empty string is the empty sequence.    *)
(***************************************************************************)
EXTENDS Integers, Sequences, FiniteSets, TLC

\* Number of requests the server handles (concurrently) in one run.
MaxRequests == 2

Requests == 1..MaxRequests

-----------------------------------------------------------------------------
(* JSON values and Python's view of them *)

JStr(s) == [t |-> "str", v |-> s]
JNull == [t |-> "null", v |-> "null"]
JNum(s) == [t |-> "num", v |-> s]

\* A Python str as a text: "" is the empty text.
Lit(s) == IF s = "" THEN <<>> ELSE <<s>>

\* str(x) / format(x, '') as used by an f-string replacement field.
PyStr(j) ==
  CASE j.t = "str" -> Lit(j.v)
    [] j.t = "null" -> <<"None">>
    [] OTHER -> <<j.v>>

\* Variant: the comparison ignores case.
EqPaidAnyCase(j) == j.t = "str" /\ j.v \in {"paid", "Paid"}

\* x == 'paid' for a parsed JSON value x: only the str 'paid' is equal to it.
EqPaid(j) == j.t = "str" /\ j.v = "paid"

-----------------------------------------------------------------------------
(* Request bodies *)

\* The values of company_name and plan_type that requests carry.
CompanyValues == {JStr(""), JStr("Acme"), JStr("Globex"), JNull}
PlanValues == {JStr("free"), JStr("paid"), JStr("Paid"), JNull, JNum("1")}

\* A body is what the client sent: nothing that Flask takes for JSON
\* ("absent"), JSON that does not parse ("malformed"), or a JSON value.  For
\* an object the model keeps the two fields the handler reads and whether
\* there is any other field; for an array its elements; a JSON string is a
\* set of tokens, so that "x in s" (substring) is token membership.
Body(kind, has_cn, cn, has_pt, pt, extra, items, truthy) ==
  [kind |-> kind, has_cn |-> has_cn, cn |-> cn, has_pt |-> has_pt, pt |-> pt,
   extra |-> extra, items |-> items, truthy |-> truthy]

Plain(kind) == Body(kind, FALSE, JNull, FALSE, JNull, FALSE, {}, FALSE)
Obj(has_cn, cn, has_pt, pt, extra) ==
  Body("object", has_cn, cn, has_pt, pt, extra, {}, has_cn \/ has_pt \/ extra)
Arr(items) == Body("array", FALSE, JNull, FALSE, JNull, FALSE, items, items # {})
Str(items) == Body("string", FALSE, JNull, FALSE, JNull, FALSE, items, items # {})
Num(nonzero) == Body("number", FALSE, JNull, FALSE, JNull, FALSE, {}, nonzero)
Bool(b) == Body("bool", FALSE, JNull, FALSE, JNull, FALSE, {}, b)

\* Objects that carry company_name: every company value without plan_type
\* and with "free", the named companies with "paid", and one company with
\* the plan values that are neither.
ValidBodies ==
  {Obj(TRUE, c, FALSE, JNull, FALSE) : c \in CompanyValues}
    \cup {Obj(TRUE, c, TRUE, JStr("free"), FALSE) : c \in CompanyValues \ {JNull}}
    \cup {Obj(TRUE, c, TRUE, JStr("paid"), FALSE) : c \in {JStr("Acme"), JStr("Globex")}}
    \cup {Obj(TRUE, JStr("Acme"), TRUE, p, TRUE) : p \in PlanValues \ {JStr("free"), JStr("paid")}}

ObjectBodies ==
  ValidBodies \cup {Obj(FALSE, JNull, FALSE, JNull, FALSE),
                    Obj(FALSE, JNull, TRUE, JStr("paid"), FALSE)}

NonObjectBodies ==
  {Plain("null"), Arr({"x"}), Arr({"company_name"}),
   Str({"abc"}), Str({"company_name"}),
   Num(FALSE), Num(TRUE), Bool(FALSE), Bool(TRUE)}

Bodies == {Plain("absent"), Plain("malformed")} \cup ObjectBodies \cup NonObjectBodies

NoBody == Plain("none")

-----------------------------------------------------------------------------
(* Python operations the handler applies to the parsed body *)

\* bool(data): None, {}, [], "", 0 and False are falsy.
Truthy(d) == d.kind # "null" /\ d.truthy

\* 'company_name' in data: key membership for a dict, element membership for
\* a list, substring for a str, TypeError for a number or a bool.
Contains(d) ==
  CASE d.kind = "object" -> IF d.has_cn THEN "True" ELSE "False"
    [] d.kind \in {"array", "string"} ->
         IF "company_name" \in d.items THEN "True" ELSE "False"
    [] OTHER -> "TypeError"

\* data['company_name'] once the membership test passed: only a dict can be
\* indexed by a str.
Subscriptable(d) == d.kind = "object"

\* Variant: the default of the lookup is 'paid'.
GetPlanTypeDefaultPaid(d) == IF d.has_pt THEN d.pt ELSE JStr("paid")

\* data.get('plan_type', 'free')
GetPlanType(d) == IF d.has_pt THEN d.pt ELSE JStr("free")

-----------------------------------------------------------------------------
(* Responses *)

NoResponse == [status |-> 0, body |-> [f \in {} |-> <<>>]]

KeyNotFoundText == "Gemini API key not found. Please set it in the environment variables."
MissingCompanyText == "Missing 'company_name' in request body"
ErrorPrefix == "An error occurred while generating the report: "

\* jsonify({"error": text}), status
ErrorResponse(status, text) == [status |-> status, body |-> [error |-> text]]

KeyNotFound == ErrorResponse(500, <<KeyNotFoundText>>)
MissingCompany == ErrorResponse(400, <<MissingCompanyText>>)

\* Variant: the name is quoted, the literal "report" is sent.
ReportResponseQuoted(report) == [status |-> 200, body |-> [report |-> <<"report">>]]

\* jsonify({"report": report}) with Flask's default status
ReportResponse(report) == [status |-> 200, body |-> [report |-> Lit(report)]]

\* Variant: the status is left out of the return, Flask answers 200.
KickoffFailedNoStatus(msg) == ErrorResponse(200, <<ErrorPrefix>> \o Lit(msg))

\* jsonify({"error": f"An error occurred ...: {str(e)}"}), 500
KickoffFailed(msg) == ErrorResponse(500, <<ErrorPrefix>> \o Lit(msg))

\* What Flask itself answers when the view function raises: the HTTP
\* exception's own page, or "Internal Server Error" for any other exception.
FrameworkResponse(status, reason) == [status |-> status, body |-> [html |-> <<reason>>]]

Unhandled(exc) == FrameworkResponse(500, exc)

-----------------------------------------------------------------------------
(* Lines 74-86: credential check, body parsing, validation, locals *)

EnvValues == {[set |-> FALSE, val |-> ""], [set |-> TRUE, val |-> ""],
              [set |-> TRUE, val |-> "key"]}

\* not os.getenv('GEMINI_API_KEY') is false
KeyAvailable(e) == e.set /\ e.val # ""

\* request.get_json(): the parsed value, or an HTTP exception.  A body that
\* is not sent as JSON gives None or 415 Unsupported Media Type, depending on
\* the installed Flask; JSON that does not parse gives 400 Bad Request.
GetJsonOutcomes(b) ==
  CASE b.kind = "absent" ->
         {[raised |-> 0, data |-> Plain("null")], [raised |-> 415, data |-> b]}
    [] b.kind = "malformed" -> {[raised |-> 400, data |-> b]}
    [] OTHER -> {[raised |-> 0, data |-> b]}

NoLocals == [competitor_company |-> JNull, plan_type |-> JNull]

Respond(resp) == [done |-> TRUE, response |-> resp, locals |-> NoLocals]

Proceed(d) ==
  [done |-> FALSE, response |-> NoResponse,
   locals |-> [competitor_company |-> d.cn, plan_type |-> GetPlanType(d)]]

\* if not data or 'company_name' not in data: 400; then the two reads.
Validate(d) ==
  IF ~Truthy(d) THEN Respond(MissingCompany)
  ELSE IF Contains(d) = "TypeError" THEN Respond(Unhandled("TypeError"))
  ELSE IF Contains(d) = "False" THEN Respond(MissingCompany)
  ELSE IF ~Subscriptable(d) THEN Respond(Unhandled("TypeError"))
  ELSE Proceed(d)

\* Variant: the body is parsed and validated before the credential check.
EntryValidateFirst(e, j) ==
  IF j.raised # 0 THEN Respond(FrameworkResponse(j.raised, "HTTPException"))
  ELSE IF Validate(j.data).done THEN Validate(j.data)
  ELSE IF ~KeyAvailable(e) THEN Respond(KeyNotFound)
  ELSE Validate(j.data)

\* The handler from its first line to line 86, given the environment, and
\* what get_json did.
Entry(e, j) ==
  IF ~KeyAvailable(e) THEN Respond(KeyNotFound)
  ELSE IF j.raised # 0 THEN Respond(FrameworkResponse(j.raised, "HTTPException"))
  ELSE Validate(j.data)

-----------------------------------------------------------------------------
(* Lines 92-139: the three tasks and the crew of one request *)

FullSwotLine == "3. **SWOT Analysis:** A full Strengths, Weaknesses, Opportunities, and Threats analysis based on all data."
FullContentLine == "4. **Content Strategy Angles:** Suggest 3-5 specific content ideas or keywords the user can target."
LockedLine == "3. **Premium Features Locked:** Create sections titled \"SWOT Analysis\" and \"Content Strategy Angles\" but under each, write: "
UpsellText == "'Upgrade to a paid plan to unlock this in-depth analysis.'"
FullExpectedOutput == "A well-formatted, professional intelligence report using markdown. Provide full, unrestricted details in all sections."
TeaserExpectedOutput == "A well-formatted \"teaser\" report using markdown. It should give a taste of the value while clearly indicating that more is available in the paid version."

Task(description, expected_output, agent, context) ==
  [description |-> description, expected_output |-> expected_output,
   agent |-> agent, context |-> context]

news_task(c) ==
  Task(<<"Search for and analyze the latest news, blog posts, and press releases for the company: ">>
         \o PyStr(c)
         \o <<". Focus on the last 3-6 months. Summarize key product launches, leadership changes, and financial news.">>,
       <<"A bullet-point summary of the top 3-5 most important news items and announcements.">>,
       "news_scout", <<>>)

social_task(c) ==
  Task(<<"Analyze the social media presence of ">>
         \o PyStr(c)
         \o <<". Search for discussions on Reddit and Twitter. Identify their main marketing messages and summarize the overall public sentiment (positive, negative, neutral).">>,
       <<"A summary of the company's social media strategy and a paragraph describing customer sentiment with examples.">>,
       "social_monitor", <<>>)

strategy_task_description(c, p) ==
  IF EqPaid(p)
  THEN <<"Using the provided news analysis and social media sentiment for ">>
         \o PyStr(c)
         \o <<", compile a COMPLETE and IN-DEPTH competitor intelligence report.",
              "The report MUST have the following sections, each fully detailed:",
              "1. **Key Announcements:** Full details of recent news.",
              "2. **Social Media & Customer Voice:** Deep dive into their strategy and customer feedback.",
              FullSwotLine,
              FullContentLine>>
  ELSE <<"Using the provided news analysis and social media sentiment for ">>
         \o PyStr(c)
         \o <<", compile a \"teaser\" competitor intelligence report.",
              "The report MUST have the following structure:",
              "1. **Key Announcements:** Provide the headlines of the top 2 news items, but only a one-sentence summary for each.",
              "2. **Social Media & Customer Voice:** Give a one-sentence overview of their social strategy and the general sentiment (e.g., \"Generally positive\").",
              LockedLine,
              UpsellText>>

expected_output_format(p) ==
  IF EqPaid(p) THEN <<FullExpectedOutput>> ELSE <<TeaserExpectedOutput>>

strategy_task(c, p) ==
  Task(strategy_task_description(c, p), expected_output_format(p),
       "strategy_analyst", <<news_task(c), social_task(c)>>)

NoCrew == [agents |-> <<>>, tasks |-> <<>>, process |-> "none"]

competitor_crew(c, p) ==
  [agents |-> <<"news_scout", "social_monitor", "strategy_analyst">>,
   tasks |-> <<news_task(c), social_task(c), strategy_task(c, p)>>,
   process |-> "sequential"]

\* The names the handler reads from module scope while it builds the tasks.
AgentNames == {"news_scout", "social_monitor", "strategy_analyst"}

-----------------------------------------------------------------------------
(* Lines 20-62: the process-wide tools and agents *)

\* The names the try block binds, in the order it binds them.
GlobalNames == <<"search_tool", "website_tool", "news_scout", "social_monitor", "strategy_analyst">>

GlobalObject(n) ==
  CASE n = "search_tool" -> [class |-> "SerperDevTool", role |-> "", tools |-> <<>>]
    [] n = "website_tool" -> [class |-> "WebsiteReadTool", role |-> "", tools |-> <<>>]
    [] n = "news_scout" ->
         [class |-> "Agent", role |-> "Lead Market Researcher",
          tools |-> <<"search_tool", "website_tool">>]
    [] n = "social_monitor" ->
         [class |-> "Agent", role |-> "Social Media Analyst", tools |-> <<"search_tool">>]
    [] OTHER ->
         [class |-> "Agent", role |-> "Senior Business Strategist", tools |-> <<>>]

\* The module scope after the try block bound the first k names: k below
\* Len(GlobalNames) is a constructor that raised, the except clause printing
\* the error and leaving the remaining names unbound.
ModuleScope(k) ==
  [n \in {GlobalNames[i] : i \in 1..k} |-> GlobalObject(n)]

-----------------------------------------------------------------------------
(* What the external executor can do *)

Reports == {"# Report A", "# Report B"}
Messages == {"", "quota exceeded"}

NoOutcome == [kind |-> "none", value |-> ""]

-----------------------------------------------------------------------------
(* State *)

VARIABLES
  started,    \* the module has been imported: setup ran, the server accepts
  env,        \* GEMINI_API_KEY in the process environment
  globals,    \* module scope: the bound names among GlobalNames
  pc,         \* per request: idle, validated, running, done
  body,       \* per request: what the client sent
  locals,     \* per request: competitor_company, plan_type
  crew,       \* per request: competitor_crew with its tasks
  kickoffs,   \* per request: number of calls of competitor_crew.kickoff()
  outcome,    \* per request: what kickoff() did
  response    \* per request: the response sent

vars == <<started, env, globals, pc, body, locals, crew, kickoffs, outcome, response>>

Init ==
  /\ started = FALSE
  /\ env = [set |-> FALSE, val |-> ""]
  /\ globals = ModuleScope(0)
  /\ pc = [r \in Requests |-> "idle"]
  /\ body = [r \in Requests |-> NoBody]
  /\ locals = [r \in Requests |-> NoLocals]
  /\ crew = [r \in Requests |-> NoCrew]
  /\ kickoffs = [r \in Requests |-> 0]
  /\ outcome = [r \in Requests |-> NoOutcome]
  /\ response = [r \in Requests |-> NoResponse]

\* Import of app.py: load_dotenv() settles the environment, the try block
\* binds the tools and agents or stops at the constructor that raises.
Startup ==
  /\ ~started
  /\ started' = TRUE
  /\ \E e \in EnvValues : env' = e
  /\ \E k \in 0..Len(GlobalNames) : globals' = ModuleScope(k)
  /\ UNCHANGED <<pc, body, locals, crew, kickoffs, outcome, response>>

\* A request arrives and the handler runs up to line 86.
Receive(r) ==
  /\ started
  /\ pc[r] = "idle"
  /\ \E b \in Bodies : \E j \in GetJsonOutcomes(b) :
       LET o == Entry(env, j) IN
         /\ body' = [body EXCEPT ![r] = b]
         /\ locals' = [locals EXCEPT ![r] = o.locals]
         /\ response' = [response EXCEPT ![r] = o.response]
         /\ pc' = [pc EXCEPT ![r] = IF o.done THEN "done" ELSE "validated"]
  /\ UNCHANGED <<started, env, globals, crew, kickoffs, outcome>>

\* Variant: competitor_company and plan_type live in one process-wide slot,
\* the one the first request writes.
LocalsOfShared(r) == locals[1]

\* The locals of request r as the task construction reads them.
LocalsOf(r) == locals[r]

\* Lines 92-143: Task(...) three times, Crew(...), and the call of
\* competitor_crew.kickoff().  An agent name that the setup left unbound
\* raises NameError, which nothing in the handler catches.
Build(r) ==
  /\ pc[r] = "validated"
  /\ IF AgentNames \subseteq DOMAIN globals
     THEN /\ crew' = [crew EXCEPT ![r] =
                        competitor_crew(LocalsOf(r).competitor_company,
                                        LocalsOf(r).plan_type)]
          /\ kickoffs' = [kickoffs EXCEPT ![r] = @ + 1]
          /\ pc' = [pc EXCEPT ![r] = "running"]
          /\ UNCHANGED response
     ELSE /\ response' = [response EXCEPT ![r] = Unhandled("NameError")]
          /\ pc' = [pc EXCEPT ![r] = "done"]
          /\ UNCHANGED <<crew, kickoffs>>
  /\ UNCHANGED <<started, env, globals, body, locals, outcome>>

\* Lines 143-145: kickoff() returns the report.
KickoffReturns(r) ==
  /\ pc[r] = "running"
  /\ \E rep \in Reports :
       /\ outcome' = [outcome EXCEPT ![r] = [kind |-> "returned", value |-> rep]]
       /\ response' = [response EXCEPT ![r] = ReportResponse(rep)]
  /\ pc' = [pc EXCEPT ![r] = "done"]
  /\ UNCHANGED <<started, env, globals, body, locals, crew, kickoffs>>

\* Lines 146-148: kickoff() raises an Exception with message msg.
KickoffRaises(r) ==
  /\ pc[r] = "running"
  /\ \E msg \in Messages :
       /\ outcome' = [outcome EXCEPT ![r] = [kind |-> "raised", value |-> msg]]
       /\ response' = [response EXCEPT ![r] = KickoffFailed(msg)]
  /\ pc' = [pc EXCEPT ![r] = "done"]
  /\ UNCHANGED <<started, env, globals, body, locals, crew, kickoffs>>

Next ==
  \/ Startup
  \/ \E r \in Requests : Receive(r)
  \/ \E r \in Requests : Build(r)
  \/ \E r \in Requests : KickoffReturns(r)
  \/ \E r \in Requests : KickoffRaises(r)

Spec == Init /\ [][Next]_vars

-----------------------------------------------------------------------------
(* Properties *)

Range(f) == {f[i] : i \in DOMAIN f}

HasCompanyName(b) == b.kind = "object" /\ b.has_cn

\* The body is a JSON value: get_json returns it.
IsJson(b) == b.kind \notin {"absent", "malformed", "none"}

RequestsPaid(b) == b.has_pt /\ b.pt = JStr("paid")

Rejected400(r) ==
  /\ pc[r] = "done"
  /\ response[r].status = 400
  /\ response[r].body = [error |-> <<MissingCompanyText>>]
  /\ crew[r] = NoCrew
  /\ kickoffs[r] = 0

\* C1: while GEMINI_API_KEY is unset or empty, every request handled is
\* answered 500 with the key-not-found error, whatever its body, and neither
\* a task is built nor kickoff() called.
C1_NoKeyAlways500 ==
  \A r \in Requests :
    (started /\ ~KeyAvailable(env) /\ pc[r] # "idle") =>
      /\ pc[r] = "done"
      /\ response[r].status = 500
      /\ response[r].body = [error |-> <<KeyNotFoundText>>]
      /\ crew[r] = NoCrew
      /\ kickoffs[r] = 0

\* The key is missing, one request carries a company_name and another one
\* lacks it, and both have been answered.
C1_Witness ==
  /\ started /\ ~KeyAvailable(env)
  /\ \E r, q \in Requests :
       /\ pc[r] = "done" /\ HasCompanyName(body[r]) /\ body[r].cn = JStr("Acme")
       /\ pc[q] = "done" /\ IsJson(body[q]) /\ ~HasCompanyName(body[q])

\* C2: with the key present, every request whose JSON body has no
\* company_name field is answered 400 with exactly the missing-company_name
\* error, no task built and kickoff() not called.
C2_NoCompanyName400 ==
  \A r \in Requests :
    (KeyAvailable(env) /\ pc[r] # "idle" /\ IsJson(body[r]) /\ ~HasCompanyName(body[r]))
      => Rejected400(r)

\* C3: with the key present, a request whose company_name is the empty
\* string is rejected with 400 like a request without the field, and never
\* reaches kickoff().
C3_EmptyCompanyNameRejected ==
  \A r \in Requests :
    (KeyAvailable(env) /\ pc[r] # "idle" /\ HasCompanyName(body[r])
       /\ body[r].cn = JStr(""))
      => Rejected400(r)

\* C4: when kickoff() raised for a request, the request is answered 500 with
\* an error field that is the prefix followed by the exception's message; the
\* response is the handler's, not the framework's.
C4_KickoffExceptionIs500 ==
  \A r \in Requests :
    outcome[r].kind = "raised" =>
      /\ pc[r] = "done"
      /\ response[r].status = 500
      /\ DOMAIN response[r].body = {"error"}
      /\ response[r].body.error = <<ErrorPrefix>> \o Lit(outcome[r].value)

\* kickoff() raised with a message for an accepted request.
C4_Witness ==
  \E r \in Requests :
    /\ outcome[r] = [kind |-> "raised", value |-> "quota exceeded"]
    /\ KeyAvailable(env) /\ HasCompanyName(body[r])
    /\ pc[r] = "done"

FullVariant(t) ==
  /\ FullSwotLine \in Range(t.description)
  /\ FullContentLine \in Range(t.description)
  /\ UpsellText \notin Range(t.description)
  /\ LockedLine \notin Range(t.description)
  /\ t.expected_output = <<FullExpectedOutput>>

TeaserVariant(t) ==
  /\ UpsellText \in Range(t.description)
  /\ LockedLine \in Range(t.description)
  /\ FullSwotLine \notin Range(t.description)
  /\ FullContentLine \notin Range(t.description)
  /\ t.expected_output = <<TeaserExpectedOutput>>

SynthesisTask(r) == crew[r].tasks[Len(crew[r].tasks)]

\* C5: the synthesis task is the full-report variant exactly when the
\* request's plan_type is the string "paid"; for every other plan_type, and
\* without one, it is the teaser variant with the upsell text.
C5_FullIffPaid ==
  \A r \in Requests :
    crew[r] # NoCrew =>
      IF RequestsPaid(body[r])
      THEN FullVariant(SynthesisTask(r)) /\ ~TeaserVariant(SynthesisTask(r))
      ELSE TeaserVariant(SynthesisTask(r)) /\ ~FullVariant(SynthesisTask(r))

\* Tasks were built for a "paid" request and for a "Paid" one.
C5_Witness ==
  \E r, q \in Requests :
    /\ crew[r] # NoCrew /\ RequestsPaid(body[r])
    /\ crew[q] # NoCrew /\ body[q].has_pt /\ body[q].pt = JStr("Paid")

\* C6: two requests with the same company_name, one without plan_type and
\* one with plan_type "free", hand the same crew (tasks, agents, order,
\* context) to the executor, and get the same response when the executor
\* does the same for both.
C6_OmittedPlanIsFree ==
  \A r, q \in Requests :
    ( /\ crew[r] # NoCrew /\ crew[q] # NoCrew
      /\ body[r].cn = body[q].cn
      /\ ~body[r].has_pt
      /\ body[q].has_pt /\ body[q].pt = JStr("free") )
    => /\ crew[r] = crew[q]
       /\ (pc[r] = "done" /\ pc[q] = "done" /\ outcome[r] = outcome[q])
            => response[r] = response[q]

\* Such a pair of requests, both answered after the same executor outcome.
C6_Witness ==
  \E r, q \in Requests :
    /\ body[r].cn = JStr("Globex") /\ body[q].cn = JStr("Globex")
    /\ HasCompanyName(body[r]) /\ HasCompanyName(body[q])
    /\ ~body[r].has_pt
    /\ body[q].has_pt /\ body[q].pt = JStr("free")
    /\ pc[r] = "done" /\ pc[q] = "done"
    /\ outcome[r].kind = "returned" /\ outcome[r] = outcome[q]

\* C7: a 200 response exists only for a request whose kickoff() returned,
\* and carries exactly the returned value as its report field; and every
\* request whose kickoff() returned has that 200 response.
C7_ReportIsKickoffResult ==
  \A r \in Requests :
    /\ response[r].status = 200 =>
         /\ outcome[r].kind = "returned"
         /\ response[r].body = [report |-> Lit(outcome[r].value)]
    /\ outcome[r].kind = "returned" =>
         /\ pc[r] = "done"
         /\ response[r].status = 200
         /\ response[r].body = [report |-> Lit(outcome[r].value)]

\* Two requests answered 200 with different reports.
C7_Witness ==
  \E r, q \in Requests :
    /\ response[r].status = 200 /\ response[q].status = 200
    /\ outcome[r].value # outcome[q].value

\* The request passed the credential check and the company_name check.
PassedBothChecks(r) == KeyAvailable(env) /\ HasCompanyName(body[r])

\* C8: kickoff() is called at most once per request, exactly once for a
\* request that passed both checks and never otherwise; a failed execution
\* leaves a response with an error field only.
C8_KickoffExactlyOnce ==
  \A r \in Requests :
    /\ kickoffs[r] <= 1
    /\ pc[r] = "done" => (kickoffs[r] = 1 <=> PassedBothChecks(r))
    /\ outcome[r].kind = "raised" => DOMAIN response[r].body = {"error"}

\* The tokens that company names contribute to a description.
CompanyTokens == UNION {Range(PyStr(c)) : c \in CompanyValues}

AllTasks(r) == Range(crew[r].tasks) \cup Range(SynthesisTask(r).context)

\* The tasks of request r name the company of r's own body and no other,
\* and their plan-dependent text is that of r's own plan_type.
OwnTasksOnly(r) ==
  crew[r] # NoCrew =>
    /\ \A t \in AllTasks(r) :
         Range(t.description) \cap CompanyTokens = Range(PyStr(body[r].cn))
    /\ RequestsPaid(body[r]) <=> FullVariant(SynthesisTask(r))

\* C9: the tasks of every request are always built from that request's own
\* company_name and plan_type, whatever the other requests in flight are,
\* and no step of any handler changes the process-wide tools and agents once
\* startup has bound them.
C9_GlobalsReadOnlyTasksOwn ==
  /\ [](\A r \in Requests : OwnTasksOnly(r))
  /\ [][started => globals' = globals]_vars

\* Two requests for different companies and plans are in kickoff() at once.
C9_Witness ==
  \E r, q \in Requests :
    /\ pc[r] = "running" /\ pc[q] = "running"
    /\ body[r].cn = JStr("Acme") /\ body[q].cn = JStr("Globex")
    /\ RequestsPaid(body[r]) /\ ~RequestsPaid(body[q])

Documented(resp) ==
  \/ resp.status = 200 /\ DOMAIN resp.body = {"report"}
  \/ resp.status = 400 /\ resp.body = [error |-> <<MissingCompanyText>>]
  \/ resp.status = 500 /\ resp.body = [error |-> <<KeyNotFoundText>>]
  \/ /\ resp.status = 500
     /\ DOMAIN resp.body = {"error"}
     /\ Len(resp.body.error) >= 1
     /\ resp.body.error[1] = ErrorPrefix

\* C10: every answered request got one of the four documented responses, in
\* every process state, the one where the setup raised included.
C10_OnlyDocumentedResponses ==
  \A r \in Requests : pc[r] = "done" => Documented(response[r])

====
